---- MODULE Spec2Model ----
(***************************************************************************)
(* Model of the User component (src/src/Components/User/index.tsx): the    *)
(* two useState cells, the mount effect that starts fetchUser, the two     *)
(* suspension points of fetchUser, its two state updates (applied in one   *)
(* batch or one at a time, depending on the React root), and the render    *)
(* function.  JavaScript values are tagged records [t, v].                 *)
(***************************************************************************)
EXTENDS Integers, Sequences, FiniteSets, TLC

\* ---------------------------------------------------------------- bounds
MaxMounts == 2
MaxRerenders == 2

\* ------------------------------------------------------ JavaScript values
Undefined == [t |-> "undefined", v |-> 0]
Null == [t |-> "null", v |-> 0]
Bool(b) == [t |-> "bool", v |-> b]
Num(n) == [t |-> "num", v |-> n]
Str(s) == [t |-> "str", v |-> s]
Obj(r) == [t |-> "obj", v |-> r]

\* The values of the three address fields the component never reads.
CityValues == {Undefined, Str("DC")}
StateValues == {Undefined, Str("DC")}
ZipValues == {Undefined, Str("20001")}

\* Address objects the endpoint may send: every field may be missing.
Addresses ==
  { Obj([street |-> s, city |-> c, state |-> st, zip |-> z]) :
      s \in {Undefined, Str(""), Str("1 Navy Yard"), Str("0")},
      c \in CityValues,
      st \in StateValues,
      z \in ZipValues }

\* Object bodies: the declared shape, with any field (or the whole address)
\* missing, and a null address.
UserObjects ==
  { Obj([id |-> i, firstName |-> f, lastName |-> l, address |-> a]) :
      i \in {Undefined, Str("1")},
      f \in {Undefined, Str("Ada")},
      l \in {Undefined, Str("Lovelace")},
      a \in {Undefined, Null} \cup Addresses }

\* Everything response.json() (or a stubbed fetch) may deliver.
Payloads ==
  {Undefined, Null, Bool(FALSE), Num(0), Str("")} \cup UserObjects

\* JavaScript truthiness: `if (!user)`, `street && ...`.
Truthy(x) ==
  CASE x.t = "undefined" -> FALSE
    [] x.t = "null" -> FALSE
    [] x.t = "bool" -> x.v
    [] x.t = "num" -> x.v # 0
    [] x.t = "str" -> x.v # ""
    [] OTHER -> TRUE

\* Reading property k of x throws a TypeError when x is undefined or null.
GetThrows(x) == x.t \in {"undefined", "null"}

\* Reading property k of x otherwise: the field of an object when it has
\* one, undefined on a primitive or on a missing field.
Get(x, k) ==
  IF x.t = "obj" /\ k \in DOMAIN x.v THEN x.v[k] ELSE Undefined

\* The text React puts in the DOM for a child {x}: strings verbatim, numbers
\* in decimal, nothing for undefined, null and booleans.
Text(x) ==
  CASE x.t = "str" -> x.v
    [] x.t = "num" -> ToString(x.v)
    [] OTHER -> ""

\* ------------------------------------------------------------- rendering
Fault == <<"#TypeError">>
LoadingOut == <<"Loading...">>
NoUserOut == <<"No user found">>
Unrendered == <<>>

\* Variant: the paragraph without the `street &&` test.
StreetChildAlways(street) == <<"Address: " \o Text(street)>>

\* `{user.address.street && <p>Address: {user.address.street}</p>}`: the
\* paragraph when street is truthy, else the falsy value itself as a child.
StreetChild(street) ==
  IF Truthy(street) THEN <<"Address: " \o Text(street)>>
  ELSE IF Text(street) = "" THEN <<>>
  ELSE <<Text(street)>>

\* Variant: a line for address.city added after the street line.
UserInfoWithCity(u) ==
  IF GetThrows(u) \/ GetThrows(Get(u, "address")) THEN Fault
  ELSE <<"User Info",
         "ID: " \o Text(Get(u, "id")),
         "Name: " \o Text(Get(u, "firstName")),
         "Name: " \o Text(Get(u, "lastName"))>>
       \o StreetChild(Get(Get(u, "address"), "street"))
       \o <<"City: " \o Text(Get(Get(u, "address"), "city"))>>

\* Lines 40-48.  `user.address.street` throws when user.address is undefined
\* or null; the render then produces no output at all.
UserInfo(u) ==
  IF GetThrows(u) \/ GetThrows(Get(u, "address")) THEN Fault
  ELSE <<"User Info",
         "ID: " \o Text(Get(u, "id")),
         "Name: " \o Text(Get(u, "firstName")),
         "Name: " \o Text(Get(u, "lastName"))>>
       \o StreetChild(Get(Get(u, "address"), "street"))

\* Variant: `if (user === null)` in place of `if (!user)`.
RenderStrictNull(u, l) ==
  IF l THEN LoadingOut
  ELSE IF u = Null THEN NoUserOut
  ELSE UserInfo(u)

\* Variant: the user test placed before the isLoading test.
RenderUserFirst(u, l) ==
  IF Truthy(u) THEN UserInfo(u)
  ELSE IF l THEN LoadingOut
  ELSE NoUserOut

\* Variant: `if (user == null)` in place of `if (!user)`.
RenderNullish(u, l) ==
  IF l THEN LoadingOut
  ELSE IF u \in {Null, Undefined} THEN NoUserOut
  ELSE UserInfo(u)

\* The body of the component after the hooks: what one render returns.
Render(u, l) ==
  IF l THEN LoadingOut
  ELSE IF ~Truthy(u) THEN NoUserOut
  ELSE UserInfo(u)

\* ----------------------------------------------------------------- state
VARIABLES
  inst,       \* number of mounts so far; the mounted instance is number inst
  mounted,    \* an instance is mounted
  user,       \* useState<User | null>(null) of the mounted instance
  isLoading,  \* useState(true) of the mounted instance
  output,     \* what the last render of the mounted instance put on screen
  rerenders,  \* renders of the mounted instance forced by its parent
  reqs,       \* the calls of fetchUser: [inst, pc, late]
  payload     \* the body the mounted instance's request delivered

vars == <<inst, mounted, user, isLoading, output, rerenders, reqs, payload>>

NoPayload == [t |-> "none", v |-> 0]

\* The dependency list of the effect, and whether the effect runs after a
\* commit: on the first one, and whenever a dependency changed.
\* Variant: `[user]` as the dependency list.
EffectDepsUser(u, l) == <<u>>

EffectDeps(u, l) == <<>>

\* Variant: useEffect without a dependency list.
EffectRunsEveryCommit(first, old, new) == TRUE

EffectRuns(first, old, new) == first \/ old # new

\* fetchUser up to its first await: the request it issues.
NewRequest(i) == [inst |-> i, pc |-> "fetch", late |-> 0]

Init ==
  /\ inst = 0
  /\ mounted = FALSE
  /\ user = Null
  /\ isLoading = TRUE
  /\ output = Unrendered
  /\ rerenders = 0
  /\ reqs = <<>>
  /\ payload = NoPayload

\* A commit of the mounted instance i: the state cells become (u1, l1), the
\* effect runs when its dependencies say so (setIsLoading(true), fetch), and
\* the screen shows the render of the resulting state.
Commit(i, first, u0, l0, u1, l1, rq) ==
  LET runs == EffectRuns(first, EffectDeps(u0, l0), EffectDeps(u1, l1))
      l2 == IF runs THEN TRUE ELSE l1
  IN /\ user' = u1
     /\ isLoading' = l2
     /\ reqs' = IF runs THEN Append(rq, NewRequest(i)) ELSE rq
     /\ output' = Render(u1, l2)

\* A fresh instance: the first render with the initial state, then the
\* effect, which calls fetchUser up to its first await.
Mount ==
  /\ ~mounted
  /\ inst < MaxMounts
  /\ inst' = inst + 1
  /\ mounted' = TRUE
  /\ rerenders' = 0
  /\ payload' = NoPayload
  /\ Commit(inst + 1, TRUE, Null, TRUE, Null, TRUE, reqs)

\* The parent re-renders the component with its state unchanged.
Rerender ==
  /\ mounted
  /\ rerenders < MaxRerenders
  /\ rerenders' = rerenders + 1
  /\ Commit(inst, FALSE, user, isLoading, user, isLoading, reqs)
  /\ UNCHANGED <<inst, mounted, payload>>

\* The parent removes the component.  The effect returns no cleanup, so the
\* requests stay in flight; the instance's state cells are discarded (the
\* variables go back to the useState initial values).
Unmount ==
  /\ mounted
  /\ mounted' = FALSE
  /\ user' = Null
  /\ isLoading' = TRUE
  /\ output' = Unrendered
  /\ rerenders' = 0
  /\ payload' = NoPayload
  /\ UNCHANGED <<inst, reqs>>

\* The mounted instance owns request k.
Live(k) == mounted /\ reqs[k].inst = inst

\* Line 22: the promise of fetch('/api/user') is fulfilled; response.json()
\* is called and fetchUser suspends again.
FetchResolve(k) ==
  /\ reqs[k].pc = "fetch"
  /\ reqs' = [reqs EXCEPT ![k].pc = "json"]
  /\ UNCHANGED <<inst, mounted, user, isLoading, output, rerenders, payload>>

\* Variant: fetchUser wrapped in try/finally { setIsLoading(false) }.
FetchRejectFinally(k) ==
  /\ reqs[k].pc = "fetch"
  /\ IF Live(k)
       THEN Commit(inst, FALSE, user, isLoading, user, FALSE,
                   [reqs EXCEPT ![k].pc = "failed"])
       ELSE /\ reqs' = [reqs EXCEPT ![k].pc = "failed"]
            /\ UNCHANGED <<user, isLoading, output>>
  /\ UNCHANGED <<inst, mounted, rerenders, payload>>

\* Line 22: fetch rejects.  Nothing catches it: fetchUser ends there.
FetchReject(k) ==
  /\ reqs[k].pc = "fetch"
  /\ reqs' = [reqs EXCEPT ![k].pc = "failed"]
  /\ UNCHANGED <<inst, mounted, user, isLoading, output, rerenders, payload>>

\* Line 23: the body does not parse.  Nothing catches it either.
JsonReject(k) ==
  /\ reqs[k].pc = "json"
  /\ reqs' = [reqs EXCEPT ![k].pc = "failed"]
  /\ UNCHANGED <<inst, mounted, user, isLoading, output, rerenders, payload>>

\* Variant: an is-still-mounted flag checked before the setters.
JsonResolveBatchedGuarded(k) ==
  /\ reqs[k].pc = "json"
  /\ IF Live(k)
       THEN \E p \in Payloads :
            /\ Commit(inst, FALSE, user, isLoading, p, FALSE,
                      [reqs EXCEPT ![k].pc = "done"])
            /\ payload' = p
       ELSE /\ reqs' = [reqs EXCEPT ![k].pc = "done"]
            /\ UNCHANGED <<user, isLoading, output, payload>>
  /\ UNCHANGED <<inst, mounted, rerenders>>

\* Lines 23-25 under a root that batches updates made outside an event
\* handler: setUser(data) and setIsLoading(false) land in one commit.  React
\* drops updates to an unmounted instance, so there only the calls count.
JsonResolveBatched(k) ==
  /\ reqs[k].pc = "json"
  /\ IF Live(k)
       THEN \E p \in Payloads :
            /\ Commit(inst, FALSE, user, isLoading, p, FALSE,
                      [reqs EXCEPT ![k].pc = "done"])
            /\ payload' = p
       ELSE /\ reqs' = [reqs EXCEPT ![k].pc = "done", ![k].late = @ + 2]
            /\ UNCHANGED <<user, isLoading, output, payload>>
  /\ UNCHANGED <<inst, mounted, rerenders>>

\* Variant: setIsLoading(false) written before setUser(data).
JsonResolveSetLoadingFirst(k) ==
  /\ reqs[k].pc = "json"
  /\ IF Live(k)
       THEN \E p \in Payloads :
            /\ Commit(inst, FALSE, user, isLoading, user, FALSE,
                      [reqs EXCEPT ![k].pc = "setUser"])
            /\ payload' = p
       ELSE /\ reqs' = [reqs EXCEPT ![k].pc = "setUser", ![k].late = @ + 1]
            /\ UNCHANGED <<user, isLoading, output, payload>>
  /\ UNCHANGED <<inst, mounted, rerenders>>

\* Lines 23-24 under a root that does not batch them: setUser(data) commits
\* on its own, with isLoading still true.
JsonResolveSetUser(k) ==
  /\ reqs[k].pc = "json"
  /\ IF Live(k)
       THEN \E p \in Payloads :
            /\ Commit(inst, FALSE, user, isLoading, p, isLoading,
                      [reqs EXCEPT ![k].pc = "setUser"])
            /\ payload' = p
       ELSE /\ reqs' = [reqs EXCEPT ![k].pc = "setUser", ![k].late = @ + 1]
            /\ UNCHANGED <<user, isLoading, output, payload>>
  /\ UNCHANGED <<inst, mounted, rerenders>>

\* Line 25 under such a root: setIsLoading(false) commits next.
SetIsLoadingFalse(k) ==
  /\ reqs[k].pc = "setUser"
  /\ IF Live(k)
       THEN Commit(inst, FALSE, user, isLoading, user, FALSE,
                   [reqs EXCEPT ![k].pc = "done"])
       ELSE /\ reqs' = [reqs EXCEPT ![k].pc = "done", ![k].late = @ + 1]
            /\ UNCHANGED <<user, isLoading, output>>
  /\ UNCHANGED <<inst, mounted, rerenders, payload>>

Next ==
  \/ Mount
  \/ Rerender
  \/ Unmount
  \/ \E k \in DOMAIN reqs : FetchResolve(k)
  \/ \E k \in DOMAIN reqs : FetchReject(k)
  \/ \E k \in DOMAIN reqs : JsonReject(k)
  \/ \E k \in DOMAIN reqs : JsonResolveBatched(k)
  \/ \E k \in DOMAIN reqs : JsonResolveSetUser(k)
  \/ \E k \in DOMAIN reqs : SetIsLoadingFalse(k)

Spec == Init /\ [][Next]_vars

\* ------------------------------------------------------- claim vocabulary
\* The requests the mounted instance issued.
MyReqs == {k \in DOMAIN reqs : reqs[k].inst = inst}

\* The mounted instance's request has completed and its result is applied.
Settled == mounted /\ \E k \in MyReqs : reqs[k].pc = "done"

\* The observable state of the mounted instance.
Phase ==
  IF isLoading THEN "Loading" ELSE IF Truthy(user) THEN "Loaded" ELSE "Empty"

\* A field of the payload as the claim expects it on screen: the string
\* itself, nothing when the field is missing.
Verbatim(x) == IF x.t = "str" THEN x.v ELSE ""

\* The four lines every render of a user starts with.
ShowsFieldsOf(p) ==
  /\ Len(output) >= 4
  /\ output[1] = "User Info"
  /\ output[2] = "ID: " \o Verbatim(Get(p, "id"))
  /\ output[3] = "Name: " \o Verbatim(Get(p, "firstName"))
  /\ output[4] = "Name: " \o Verbatim(Get(p, "lastName"))

\* p.address.f read safely: undefined when the address is missing too.
AddressField(p, f) ==
  IF GetThrows(Get(p, "address")) THEN Undefined
  ELSE Get(Get(p, "address"), f)

StreetOf(p) == AddressField(p, "street")

AddressFields == {"street", "city", "state", "zip"}

\* C1: for every truthy payload, once the request has completed the state is
\* Loaded(p) and the render shows "ID: <id>", "Name: <firstName>",
\* "Name: <lastName>" taken verbatim from p, without a fault.
C1_TruthyPayloadRendersFields ==
  (Settled /\ Truthy(payload)) =>
    /\ user = payload
    /\ ~isLoading
    /\ output # Fault
    /\ ShowsFieldsOf(payload)

\* C2: in every reachable state, a loaded user that lacks any of
\* address.street, address.city, address.state, address.zip renders without a
\* fault, and a street line is on screen only when address.street is present.
C2_AbsentAddressFieldNeverFaults ==
  (mounted /\ Phase = "Loaded"
     /\ \E f \in AddressFields : AddressField(user, f) = Undefined) =>
    /\ output # Fault
    /\ Len(output) > 4 => StreetOf(user) # Undefined

\* C3: every mount issues exactly one call to /api/user, whatever re-renders,
\* state changes, completions and failures follow.
C3_OneCallPerMount ==
  /\ Len(reqs) = inst
  /\ \A i \in 1..inst : Cardinality({k \in DOMAIN reqs : reqs[k].inst = i}) = 1

C3_Witness ==
  /\ Settled
  /\ rerenders >= 2
  /\ ~isLoading
  /\ inst = 2
  /\ Cardinality(MyReqs) = 1
  /\ \E k \in DOMAIN reqs : reqs[k].inst = 1 /\ reqs[k].pc = "failed"

\* C4: for a null or undefined payload, once the request has completed the
\* screen shows "No user found" and nothing else.
C4_NullishPayloadShowsNoUser ==
  (Settled /\ payload \in {Null, Undefined}) =>
    /\ Phase = "Empty"
    /\ output = NoUserOut

C4_Witness ==
  /\ Settled
  /\ payload = Undefined
  /\ user = Undefined
  /\ output = NoUserOut

\* C5: in the Loaded state, a falsy address.street (missing or "") puts no
\* street line on screen, and a non-empty string street puts exactly the
\* line "Address: <street>" after the three field lines.
C5_StreetLineIffNonEmptyStreet ==
  (mounted /\ Phase = "Loaded") =>
    /\ ~Truthy(StreetOf(user)) => Len(output) <= 4
    /\ (StreetOf(user).t = "str" /\ StreetOf(user).v # "") =>
         /\ Len(output) = 5
         /\ output[5] = "Address: " \o StreetOf(user).v

C5_Witness ==
  /\ mounted
  /\ Phase = "Loaded"
  /\ StreetOf(user) = Str("1 Navy Yard")
  /\ output = <<"User Info", "ID: 1", "Name: Ada", "Name: Lovelace",
                "Address: 1 Navy Yard">>

\* C6: while isLoading is still true the screen shows "Loading..." and
\* nothing else, also when user has already been set.
C6_LoadingShowsOnlyLoading ==
  (mounted /\ isLoading) => output = LoadingOut

C6_Witness ==
  /\ mounted
  /\ isLoading
  /\ Truthy(user)
  /\ output = LoadingOut

\* C7: within one mount, once a body has been received the stored user is
\* never replaced, and once the state has left Loading it stays what it is:
\* no return to Loading and no switch between Loaded and Empty.
C7_LinearLifecycle ==
  [][(mounted /\ mounted' /\ inst' = inst) =>
       /\ payload # NoPayload => (user' = user /\ payload' = payload)
       /\ Phase # "Loading" => (Phase' = Phase /\ user' = user)]_vars

C7_Witness ==
  /\ mounted
  /\ Phase = "Empty"
  /\ rerenders >= 1
  /\ inst = 2

\* C8: a rejected fetch or an unparsable body is not caught: no setter runs,
\* the mounted instance keeps isLoading = true and user = null and shows
\* "Loading...", and the failed call never resumes.
FailedLeavesLoading ==
  \A k \in DOMAIN reqs :
    reqs[k].pc = "failed" =>
      /\ reqs[k].late = 0
      /\ Live(k) =>
           /\ isLoading
           /\ user = Null
           /\ payload = NoPayload
           /\ output = LoadingOut

FailedIsFinal ==
  \A k \in DOMAIN reqs : reqs[k].pc = "failed" => reqs'[k] = reqs[k]

C8_FailureStaysLoading == []FailedLeavesLoading /\ [][FailedIsFinal]_vars

C8_Witness ==
  /\ mounted
  /\ rerenders >= 1
  /\ output = LoadingOut
  /\ \E k \in MyReqs : reqs[k].pc = "failed"

\* C9: on a mount whose request resolves and whose body parses, loading is
\* followed by the user fields or by "No user found": once the result is
\* applied the screen shows one of the two.
C9_SettledShowsUserOrNoUser ==
  Settled =>
    \/ output = NoUserOut
    \/ Len(output) >= 4 /\ output[1] = "User Info"

\* C10: unmounting leaves the request in flight, and a continuation that
\* resumes on an unmounted instance still calls setUser and
\* setIsLoading(false) on it.
UnmountCancelsNothing == (mounted /\ ~mounted') => reqs' = reqs

LateSettersStillCalled ==
  \A k \in DOMAIN reqs :
    ~Live(k) =>
      /\ (reqs[k].pc = "json" /\ reqs'[k].pc = "done") =>
           reqs'[k].late = reqs[k].late + 2
      /\ (reqs[k].pc = "json" /\ reqs'[k].pc = "setUser") =>
           reqs'[k].late = reqs[k].late + 1
      /\ (reqs[k].pc = "setUser" /\ reqs'[k].pc = "done") =>
           reqs'[k].late = reqs[k].late + 1
      /\ reqs[k].pc = "json" => reqs'[k].pc \in {"json", "failed", "setUser", "done"}

C10_NoCancellationNoGuard ==
  [][UnmountCancelsNothing /\ LateSettersStillCalled]_vars

C10_Witness ==
  /\ ~mounted
  /\ \E k \in DOMAIN reqs : reqs[k].pc = "done" /\ reqs[k].late = 2
  /\ \E k \in DOMAIN reqs : reqs[k].pc = "setUser" /\ reqs[k].late = 1

\* The payloads that differ from p at most in address.city, address.state
\* and address.zip: p itself when it has no address object.
Twins(p) ==
  IF p.t = "obj" /\ Get(p, "address").t = "obj"
    THEN { Obj([p.v EXCEPT !.address =
                  Obj([@.v EXCEPT !.city = c, !.state = st, !.zip = z])]) :
             c \in CityValues, st \in StateValues, z \in ZipValues }
    ELSE {p}

\* C11: the output does not depend on address.city, address.state or
\* address.zip: in every state of the lifecycle, a mount whose stored user
\* differs from this one's only in those three fields renders the output
\* that is on this mount's screen.
C11_OutputIgnoresCityStateZip ==
  mounted => \A q \in Twins(user) : Render(q, isLoading) = output

C11_Witness ==
  /\ mounted
  /\ Phase = "Loaded"
  /\ AddressField(user, "city") = Str("DC")
  /\ AddressField(user, "zip") = Undefined
  /\ Cardinality(Twins(user) \cap Payloads) = 8
  /\ output = <<"User Info", "ID: 1", "Name: Ada", "Name: Lovelace",
                "Address: 1 Navy Yard">>

\* C12: setUser(data) is applied before setIsLoading(false), so in every
\* reachable state isLoading is false only if user already equals the
\* received body; "No user found" is therefore on screen only after the
\* request has completed with a falsy body, never on a mount whose body is
\* truthy and never before the request completes.
C12_NotLoadingOnlyWithUserSet ==
  mounted =>
    /\ ~isLoading => (payload # NoPayload /\ user = payload)
    /\ output = NoUserOut =>
         (Settled /\ payload # NoPayload /\ ~Truthy(payload))

C12_Witness ==
  /\ mounted
  /\ isLoading
  /\ \E k \in MyReqs : reqs[k].pc = "setUser"
  /\ Truthy(payload)
  /\ user = payload
  /\ output = LoadingOut

\* C13: the decision between Empty and Loaded reads the truthiness of the
\* whole body only: false, 0 and "" end in "No user found" like null and
\* undefined, and the final state is Empty exactly when the body is falsy.
FalsyNonNullish == {Bool(FALSE), Num(0), Str("")}

C13_EmptyIffFalsyPayload ==
  Settled =>
    /\ payload \in FalsyNonNullish => output = NoUserOut
    /\ Phase = "Empty" <=> ~Truthy(payload)
    /\ output = NoUserOut <=> ~Truthy(payload)

C13_Witness ==
  /\ Settled
  /\ payload = Num(0)
  /\ user = Num(0)
  /\ Phase = "Empty"
  /\ output = NoUserOut
====
